---- MODULE Spec2Model ----
(***************************************************************************)
(* blackijecky: the wire codec (protocol.py), the per-connection handler   *)
(* of server.py (handle_client, the handshake parser and play_one_round),  *)
(* and the client's discovery listener and session driver (client.py).     *)
(*                                                                         *)
(* Byte strings are sequences of numbers 0..255.  A connection's peer is   *)
(* the environment: every receive draws what the peer delivered (a         *)
(* handshake block, a frame, a datagram, or nothing before the timeout)    *)
(* and every send either succeeds or raises OSError.  In LockSpec the peer *)
(* of the dealer is the client: what one end sends is what the other       *)
(* reads, in order, and nothing fails.                                     *)
(*                                                                         *)
(* random.shuffle is a nondeterministic choice: deck is the set of cards   *)
(* still in the list, and deck.pop() takes any card the shuffle may have   *)
(* put on top.  The shuffles explored come in families: those whose popped *)
(* cards come from the first DeckSize cards of TopCards in any order, the  *)
(* one that pops TopCards as listed, and the two that pop the whole deck   *)
(* by card value, lowest first and highest first.                          *)
(*                                                                         *)
(* Specifications: Spec (handle_client), ShuffleSpec (the same under every *)
(* family of shuffles), TimedSpec and TimedFairSpec (the same with a clock *)
(* for the socket timeouts), PairSpec (two handler threads), CodecSpec,    *)
(* DecideSpec and ParseSpec (the codec, decide_result and the handshake    *)
(* parser applied to one input at a time), ListenerSpec and                *)
(* ListenerFairSpec (wait_for_offer), ClientSpec (play_session), LockSpec  *)
(* (play_session and handle_client on one connection).  The variables of   *)
(* the components a specification does not run stay at their idle values.  *)
(***************************************************************************)
EXTENDS Integers, Sequences, FiniteSets, TLC

\* ------------------------------------------------------------------ bounds
\* number of cards of TopCards a shuffle may bring to the top of the deck
DeckSize == 7
\* largest round count a handshake of the model declares and gets accepted
MaxRounds == 2
\* largest hand sum decide_result is applied to on its own, and largest
\* player_sum a session of play_session runs up
MaxSum == 30
\* the clock of wait_for_offer stops at this many ticks after the call
MaxNow == 14
\* largest round count written as a text handshake
MaxTextRounds == 256

\* ------------------------------------------------------- protocol constants
\* 0xabcddcba as struct "!I" lays it out: four big-endian bytes
MAGIC_COOKIE == <<171, 205, 220, 186>>
MSG_TYPE_OFFER == 2
MSG_TYPE_REQUEST == 3
MSG_TYPE_PAYLOAD == 4
TEAM_NAME_LEN == 32
OFFER_STRUCT_size == 39
REQUEST_STRUCT_size == 38
PAYLOAD_C2S_STRUCT_size == 10
PAYLOAD_S2C_STRUCT_size == 9

RESULT_NOT_OVER == 0
RESULT_TIE == 1
RESULT_LOSS == 2
RESULT_WIN == 3

\* b"Hittt" and b"Stand"
DECISION_HIT == <<72, 105, 116, 116, 116>>
DECISION_STAND == <<83, 116, 97, 110, 100>>

SUITS == 0..3
RANKS == 1..13

\* Python's None, as returned by the decoders and by recv_exact.  Every other
\* value these return is a non-empty sequence (bytes, or a dataclass written
\* as the tuple of its fields).
None == <<>>

\* ------------------------------------------------------------ byte helpers
RECURSIVE Repeat(_, _)
Repeat(b, n) == IF n <= 0 THEN <<>> ELSE <<b>> \o Repeat(b, n - 1)

\* bytes.ljust(n, fill)
ljust(b, n, fill) == b \o Repeat(fill, n - Len(b))

\* b[:n]
Prefix(b, n) == SubSeq(b, 1, IF Len(b) < n THEN Len(b) ELSE n)

\* b[n:]
Suffix(b, n) == SubSeq(b, n + 1, Len(b))

\* index of the first element of b that is in S, or Len(b) + 1
RECURSIVE FirstIn(_, _, _)
FirstIn(b, S, i) ==
    IF i > Len(b) THEN i
    ELSE IF b[i] \in S THEN i
    ELSE FirstIn(b, S, i + 1)

\* index of the first element of b that is not in S, or Len(b) + 1
RECURSIVE FirstNotIn(_, _, _)
FirstNotIn(b, S, i) ==
    IF i > Len(b) THEN i
    ELSE IF b[i] \notin S THEN i
    ELSE FirstNotIn(b, S, i + 1)

\* ------------------------------------------------------------------- codec
\* names are ASCII here, so str.encode / bytes.decode keep every byte
_encode_name(name) == ljust(Prefix(name, TEAM_NAME_LEN), TEAM_NAME_LEN, 0)

\* variant: the zero padding is kept
_decode_nameKeepPadding(raw32) == raw32

_decode_name(raw32) == SubSeq(raw32, 1, FirstIn(raw32, {0}, 1) - 1)

\* REQUEST_STRUCT.pack without pack_request's range check: what a peer can
\* put on the wire
RequestBytes(cookie, msg_type, rounds, name) ==
    cookie \o <<msg_type, rounds>> \o _encode_name(name)

\* a raised ValueError; no function here both raises it and returns None
ValueError == <<>>

\* tcp_port(2, big-endian) and the name after cookie and type
pack_offer(tcp_port, server_name) ==
    IF ~(0 <= tcp_port /\ tcp_port <= 65535) THEN ValueError
    ELSE MAGIC_COOKIE \o <<MSG_TYPE_OFFER, tcp_port \div 256, tcp_port % 256>>
            \o _encode_name(server_name)

\* variant: the cookie of an Offer is not compared
unpack_offerAnyCookie(data) ==
    IF Len(data) # OFFER_STRUCT_size THEN None
    ELSE IF data[5] # MSG_TYPE_OFFER THEN None
    ELSE <<data[6] * 256 + data[7], _decode_name(Suffix(data, 7))>>

unpack_offer(data) ==
    IF Len(data) # OFFER_STRUCT_size THEN None
    ELSE IF SubSeq(data, 1, 4) # MAGIC_COOKIE \/ data[5] # MSG_TYPE_OFFER
         THEN None
    ELSE <<data[6] * 256 + data[7], _decode_name(Suffix(data, 7))>>

\* fields of the Offer dataclass
Offer_tcp_port(offer) == offer[1]
Offer_server_name(offer) == offer[2]

pack_request(rounds, client_name) ==
    IF ~(1 <= rounds /\ rounds <= 255) THEN ValueError
    ELSE RequestBytes(MAGIC_COOKIE, MSG_TYPE_REQUEST, rounds, client_name)

unpack_request(data) ==
    IF Len(data) # REQUEST_STRUCT_size THEN None
    ELSE IF SubSeq(data, 1, 4) # MAGIC_COOKIE \/ data[5] # MSG_TYPE_REQUEST
         THEN None
    ELSE <<data[6], _decode_name(Suffix(data, 6))>>

\* fields of the Request dataclass
Request_rounds(req) == req[1]
Request_client_name(req) == req[2]

pack_payload_decision(decision5) ==
    IF Len(decision5) # 5 THEN ValueError
    ELSE MAGIC_COOKIE \o <<MSG_TYPE_PAYLOAD>> \o decision5

unpack_payload_decision(data) ==
    IF Len(data) # PAYLOAD_C2S_STRUCT_size THEN None
    ELSE IF SubSeq(data, 1, 4) # MAGIC_COOKIE \/ data[5] # MSG_TYPE_PAYLOAD
         THEN None
    ELSE Suffix(data, 5)

\* result(1) rank(2, big-endian) suit(1) after cookie and type
pack_payload_card(result, rank, suit) ==
    IF ~(0 <= result /\ result <= 3) THEN ValueError
    ELSE IF ~(1 <= rank /\ rank <= 13) THEN ValueError
    ELSE IF ~(0 <= suit /\ suit <= 3) THEN ValueError
    ELSE MAGIC_COOKIE \o <<MSG_TYPE_PAYLOAD, result, rank \div 256, rank % 256, suit>>

\* variant: the cookie of a card frame is not compared
unpack_payload_cardAnyCookie(data) ==
    IF Len(data) # PAYLOAD_S2C_STRUCT_size THEN None
    ELSE IF data[5] # MSG_TYPE_PAYLOAD THEN None
    ELSE LET result == data[6]
             rank == data[7] * 256 + data[8]
             suit == data[9]
         IN IF ~(0 <= result /\ result <= 3 /\ 1 <= rank /\ rank <= 13
                 /\ 0 <= suit /\ suit <= 3)
            THEN None
            ELSE <<result, rank, suit>>

unpack_payload_card(data) ==
    IF Len(data) # PAYLOAD_S2C_STRUCT_size THEN None
    ELSE IF SubSeq(data, 1, 4) # MAGIC_COOKIE \/ data[5] # MSG_TYPE_PAYLOAD
         THEN None
    ELSE LET result == data[6]
             rank == data[7] * 256 + data[8]
             suit == data[9]
         IN IF ~(0 <= result /\ result <= 3 /\ 1 <= rank /\ rank <= 13
                 /\ 0 <= suit /\ suit <= 3)
            THEN None
            ELSE <<result, rank, suit>>

\* fields of the ServerPayload dataclass
Payload_result(p) == p[1]
Payload_rank(p) == p[2]
Payload_suit(p) == p[3]

card_value(rank) ==
    IF rank = 1 THEN 11
    ELSE IF 2 <= rank /\ rank <= 10 THEN rank
    ELSE 10

\* ------------------------------------------------------ handshake parsing
\* What the peer does on a fresh connection: the bytes it delivers, and what
\* a read finds once they are used up ("eof": peer closed, "timeout": peer
\* silent until the socket timeout).
\* recv_exact(conn, n): the first n bytes, or None when the peer delivers
\* fewer (recv then returns b"" or raises socket.timeout / OSError)
recv_exact(stream, n) == IF Len(stream) < n THEN None ELSE Prefix(stream, n)

\* bytes.decode("utf-8", errors="ignore") to code points: ASCII bytes and
\* well-formed two-byte sequences decode, every other byte >= 0x80 is
\* dropped (the inputs contain no three- or four-byte sequences)
RECURSIVE decode_utf8_ignore(_)
decode_utf8_ignore(b) ==
    IF b = <<>> THEN <<>>
    ELSE IF b[1] < 128 THEN <<b[1]>> \o decode_utf8_ignore(Suffix(b, 1))
    ELSE IF /\ 194 <= b[1] /\ b[1] <= 223 /\ Len(b) >= 2
            /\ 128 <= b[2] /\ b[2] <= 191
         THEN <<(b[1] - 192) * 64 + (b[2] - 128)>> \o decode_utf8_ignore(Suffix(b, 2))
    ELSE decode_utf8_ignore(Suffix(b, 1))

\* code points below 256 for which str.isspace() holds
Whitespace == {9, 10, 11, 12, 13, 28, 29, 30, 31, 32, 133, 160}

Digits == 48..57

RECURSIVE DigitsValue(_, _)
DigitsValue(tok, acc) ==
    IF tok = <<>> THEN acc
    ELSE DigitsValue(Suffix(tok, 1), acc * 10 + (tok[1] - 48))

\* int(token): an optional sign and ASCII digits, else ValueError
int(tok) ==
    LET signed == tok # <<>> /\ tok[1] \in {43, 45}
        body == IF signed THEN Suffix(tok, 1) ELSE tok
    IN IF body = <<>> \/ FirstNotIn(body, Digits, 1) <= Len(body) THEN ValueError
       ELSE IF signed /\ tok[1] = 45 THEN <<0 - DigitsValue(body, 0)>>
       ELSE <<DigitsValue(body, 0)>>

\* text.strip().split()[0]; None stands for the IndexError of an empty split
first_token(text) ==
    LET i == FirstNotIn(text, Whitespace, 1)
    IN IF i > Len(text) THEN None
       ELSE SubSeq(text, i, FirstIn(text, Whitespace, i) - 1)

\* conn.recv raised socket.timeout (no code point is negative)
RecvRaised == <<-1>>

\* the `while "\n" not in text and len(text) < 128` loop: the text read, or
\* RecvRaised when conn.recv raises (caught by `except Exception`)
RECURSIVE read_text(_, _, _)
read_text(text, rest, tail) ==
    IF FirstIn(text, {10}, 1) <= Len(text) \/ Len(text) >= 128 THEN text
    ELSE IF rest = <<>> THEN (IF tail = "eof" THEN text ELSE RecvRaised)
    ELSE read_text(text \o decode_utf8_ignore(Prefix(rest, 32)), Suffix(rest, 32), tail)

UnknownTextClient ==
    <<85, 110, 107, 110, 111, 119, 110, 84, 101, 120, 116, 67, 108, 105, 101, 110, 116>>

RoundsInRange(rounds) == 1 <= rounds /\ rounds <= 255

\* (rounds, client_name) or None
parse_request_binary_or_text(stream, tail) ==
    LET first == recv_exact(stream, REQUEST_STRUCT_size)
    IN IF first = None THEN None
       ELSE LET req == unpack_request(first)
            IN IF req # None
               THEN <<Request_rounds(req), Request_client_name(req)>>
               ELSE LET text == read_text(decode_utf8_ignore(first),
                                          Suffix(stream, REQUEST_STRUCT_size), tail)
                    IN IF text = RecvRaised THEN None
                       ELSE IF first_token(text) = None THEN None
                       ELSE IF int(first_token(text)) = ValueError THEN None
                       ELSE IF ~RoundsInRange(int(first_token(text))[1]) THEN None
                       ELSE <<int(first_token(text))[1], UnknownTextClient>>

\* ------------------------------------------------------------- deck, hands
\* the (rank, suit) pairs of build_deck's list; the shuffle fixes only the
\* order in which pop() hands them out
build_deck == {<<r, s>> : r \in RANKS, s \in SUITS}

\* cards the explored shuffles may bring to the top, most wanted first:
\* two aces, a low card, mid cards and two kings give a player 22 on the
\* deal, busts on a hit, dealer totals on both sides of 17, and ties
TopCards ==
    << <<1, 0>>, <<1, 1>>, <<2, 0>>, <<5, 0>>, <<6, 0>>, <<13, 0>>, <<13, 1>>,
       <<9, 0>>, <<6, 1>>, <<10, 2>>, <<3, 3>>, <<7, 2>> >>

\* ranks by card_value, lowest first: 2..9, the four ten-valued, the ace
RanksByValue == <<2, 3, 4, 5, 6, 7, 8, 9, 10, 11, 12, 13, 1>>

\* the whole deck in the order a shuffle hands it out when the cards come
\* up lowest value first, and highest value first
AscendingPops ==
    [i \in 1..52 |-> <<RanksByValue[((i - 1) \div 4) + 1], (i - 1) % 4>>]
DescendingPops == [i \in 1..52 |-> AscendingPops[53 - i]]

\* the card of d that comes first in order
NextOf(order, d) ==
    {order[i] : i \in {j \in 1..Len(order) :
                         /\ order[j] \in d
                         /\ \A k \in 1..(j - 1) : order[k] \notin d}}

\* the cards deck.pop() may return, by the family of shuffles explored
PoppableIn(family, d) ==
    IF family = "top" THEN d \cap {TopCards[i] : i \in 1..DeckSize}
    ELSE IF family = "listed" THEN NextOf(TopCards, d)
    ELSE IF family = "ascending" THEN NextOf(AscendingPops, d)
    ELSE NextOf(DescendingPops, d)

RECURSIVE hand_sum(_)
hand_sum(hand) ==
    IF hand = <<>> THEN 0
    ELSE card_value(hand[1][1]) + hand_sum(Suffix(hand, 1))

\* variant: the dealer's bust is tested before the player's
decide_resultDealerBustFirst(player_sum, dealer_sum) ==
    IF dealer_sum > 21 THEN RESULT_WIN
    ELSE IF player_sum > 21 THEN RESULT_LOSS
    ELSE IF player_sum > dealer_sum THEN RESULT_WIN
    ELSE IF player_sum < dealer_sum THEN RESULT_LOSS
    ELSE RESULT_TIE

decide_result(player_sum, dealer_sum) ==
    IF player_sum > 21 THEN RESULT_LOSS
    ELSE IF dealer_sum > 21 THEN RESULT_WIN
    ELSE IF player_sum > dealer_sum THEN RESULT_WIN
    ELSE IF player_sum < dealer_sum THEN RESULT_LOSS
    ELSE RESULT_TIE

\* pack_payload_card of a card tuple
CardMessage(result, card) == pack_payload_card(result, card[1], card[2])

\* ------------------------------------------------------------------- state
VARIABLES
    pc,          \* where handle_client's thread is: "request", "loop" (head
                 \* of `for _ in range(rounds)`), "player_turn" (blocked in
                 \* recv_exact), "dealer_draw" (top of the draw loop),
                 \* "return" (at a return of play_one_round), "closed"
    conn,        \* the socket: "open" or "closed"
    parsed,      \* handle_client's parsed: None or <<rounds, client_name>>
    round_idx,   \* iterations of the for loop begun so far
    ok,          \* what play_one_round returns
    deck,        \* play_one_round's deck
    player,      \* play_one_round's player hand
    dealer,      \* play_one_round's dealer hand (dealer[2] is the hidden card)
    p_sum,       \* play_one_round's p_sum
    dealer_sum,  \* play_one_round's dealer_sum
    decision,    \* play_one_round's decision
    sent,        \* the frames sendall has put on the socket in this call
                 \* of play_one_round
    stood,       \* the player turn of this round ended by STAND
    faulted,     \* a send or receive of this connection has failed
    shuffles,    \* the family of shuffles explored: "top" (any order of the
                 \* first DeckSize cards of TopCards), "listed" (TopCards in
                 \* the order listed), "ascending" or "descending" (the whole
                 \* deck, by card value)
    parked,      \* the handler thread of the other connection, not running now:
                 \* its frame (the values of its locals and its socket), <<>>
                 \* where one connection is modelled
    s2c,         \* the connection where the client is modelled too: the
                 \* frames the dealer has sent and the client has not read,
                 \* each with the dealer's round number at the send; NoWire
                 \* where the peer is any byte stream and any fault
    c2s,         \* the messages the client has sent and the dealer has not
                 \* read; NoWire likewise
    idle,        \* clock ticks the handler has been blocked in its current
                 \* receive (counted only under TimedSpec)
    \* the codec and the pure functions, applied to one input at a time
    fn_pc,       \* "off", "input", "packed", "wire", "done"
    fn_kind,     \* kind of the message constructed, or the function applied
    fn_msg,      \* the message constructed, or the function's arguments
    fn_sent,     \* the bytes the encoder produced
    fn_data,     \* the bytes that reach the decoder
    fn_dec,      \* the decoder applied
    fn_out,      \* what the function returned
    \* wait_for_offer of client.py
    l_pc,        \* "off", "recvfrom" (blocked in udp.recvfrom), "returned"
    start,       \* wait_for_offer's start, in clock ticks
    now,         \* time.time(), in clock ticks
    first_any,   \* wait_for_offer's first_any: None or (ip, port, name)
    l_data,      \* wait_for_offer's data: the last datagram received
    l_addr,      \* wait_for_offer's addr[0]
    l_ret,       \* what wait_for_offer returned
    \* play_session of client.py
    c_pc,        \* "off", "connect", "deal" (reading the three cards of
                 \* the deal), "input" (at the Hit-or-Stand prompt), "hit"
                 \* (reading the card drawn), "stand" (reading the dealer's
                 \* cards), "returned", "failed" (returned None)
    c_choice,    \* play_session's choice: "" before the first input
    c_rounds,    \* play_session's rounds
    c_round_idx, \* play_session's round_idx
    c_i,         \* cards of the deal read so far in this round
    player_sum,  \* play_session's player_sum
    wins,        \* play_session's wins
    losses,      \* play_session's losses
    ties,        \* play_session's ties
    rcv_final,   \* history: the result tags of the final CardMessages the
                 \* server side has delivered, one per round, in order
    c_fault      \* play_session returned early (disconnect, bad payload,
                 \* interrupt)

\* the connection handler of server.py
dealer_vars == <<pc, conn, parsed, round_idx, ok, deck, player, dealer, p_sum,
                 dealer_sum, decision, sent, stood, faulted, shuffles, idle>>

fn_vars == <<fn_pc, fn_kind, fn_msg, fn_sent, fn_data, fn_dec, fn_out>>

listener_vars == <<l_pc, start, now, first_any, l_data, l_addr, l_ret>>

client_vars == <<c_pc, c_choice, c_rounds, c_round_idx, c_i, player_sum, wins, losses,
                 ties, rcv_final, c_fault>>

\* everything that is not the connection handler's, the codec calls',
\* the listener's, the session driver's
\* the handler threads main has started beside the one described
pair_vars == <<parked>>

\* the two directions of a connection between the client and the dealer
wire_vars == <<s2c, c2s>>

beside_dealer == <<fn_vars, listener_vars, client_vars, pair_vars>>
beside_fn == <<dealer_vars, listener_vars, client_vars, pair_vars, wire_vars>>
beside_listener == <<dealer_vars, fn_vars, client_vars, pair_vars, wire_vars>>
beside_client == <<dealer_vars, fn_vars, listener_vars, pair_vars>>

vars == <<dealer_vars, fn_vars, listener_vars, client_vars, pair_vars, wire_vars>>

\* no client is modelled at the other end of conn, no dealer at the other
\* end of tcp
NoWire == << <<>> >>

\* what the dealer's next recv_exact may return, out of any where the peer
\* is not modelled
Incoming(any) ==
    IF c2s = NoWire THEN any ELSE IF c2s = <<>> THEN {} ELSE {Head(c2s)}

\* what the client's next recv_exact may return
Arriving(any) ==
    IF s2c = NoWire THEN any ELSE IF s2c = <<>> THEN {} ELSE {Head(s2c)[2]}

\* a step of the dealer on the connection: the frames it appended to sent
\* are on their way to the client, the message it read is consumed
DealerWire(consumed) ==
    /\ s2c' = IF s2c = NoWire THEN s2c
              ELSE s2c \o [i \in 1..(Len(sent') - Len(sent)) |->
                             <<round_idx', sent'[Len(sent) + i]>>]
    /\ c2s' = IF c2s # NoWire /\ consumed THEN Tail(c2s) ELSE c2s

\* a step of the client on the connection: out, when not empty, is on its
\* way to the dealer, the frame it read is consumed
ClientWire(consumed, out) ==
    /\ s2c' = IF s2c # NoWire /\ consumed THEN Tail(s2c) ELSE s2c
    /\ c2s' = IF c2s # NoWire /\ out # <<>> THEN Append(c2s, out) ELSE c2s

\* a local not yet assigned
Unbound == <<"unbound">>

\* variant: deck.pop() leaves the card in the deck
PopKeepsCard(d, card) == d

\* the deck after deck.pop() returned card
Pop(d, card) == d \ {card}

\* the cards deck.pop() may return
Poppable(d) == PoppableIn(shuffles, d)

\* no codec call is being followed
FnOff ==
    /\ fn_pc = "off"
    /\ fn_kind = "none"
    /\ fn_msg = None
    /\ fn_sent = None
    /\ fn_data = None
    /\ fn_dec = "none"
    /\ fn_out = None

\* wait_for_offer is not running
ListenerOff ==
    /\ l_pc = "off"
    /\ start = 0
    /\ now = 0
    /\ first_any = None
    /\ l_data = None
    /\ l_addr = "none"
    /\ l_ret = None

\* play_session is not running
ClientOff ==
    /\ c_pc = "off"
    /\ c_choice = ""
    /\ c_rounds = 0
    /\ c_round_idx = 0
    /\ c_i = 0
    /\ player_sum = 0
    /\ wins = 0
    /\ losses = 0
    /\ ties = 0
    /\ rcv_final = <<>>
    /\ c_fault = FALSE

\* ------------------------------------------------------------- environment
PeerName == <<84, 101, 97, 109>>

\* ASCII decimal of a number below 10
Ascii(n) == <<48 + n>>

\* a text line padded with spaces to the size of the handshake block
TextLine(tok) == ljust(tok \o <<10>>, REQUEST_STRUCT_size, 32)

HandshakeStreams ==
      {RequestBytes(MAGIC_COOKIE, MSG_TYPE_REQUEST, r, PeerName) : r \in 0..MaxRounds}
    \cup {RequestBytes(MAGIC_COOKIE, MSG_TYPE_PAYLOAD, 1, PeerName),
          RequestBytes(<<0, 0, 0, 0>>, MSG_TYPE_REQUEST, 1, PeerName)}
    \cup {TextLine(Ascii(r)) : r \in 0..1}
    \cup {TextLine(<<50, 53, 54>>), TextLine(<<45, 49>>), TextLine(<<43, 49>>),
          TextLine(<<49, 120>>), TextLine(<<>>)}
    \cup {ljust(<<49>>, REQUEST_STRUCT_size, 32),
          ljust(<<49>>, REQUEST_STRUCT_size, 32) \o <<10>>,
          Repeat(32, REQUEST_STRUCT_size - 1) \o <<48>> \o <<49, 10>>,
          <<52, 10>>, <<>>}

\* 10-byte blocks a peer may deliver in the player turn: HIT, STAND, a
\* well-framed unknown payload ("Hitxx"), a wrong cookie, a wrong type tag
DecisionFrames ==
    {pack_payload_decision(DECISION_HIT),
     pack_payload_decision(DECISION_STAND),
     pack_payload_decision(<<72, 105, 116, 120, 120>>),
     <<0, 0, 0, 0>> \o <<MSG_TYPE_PAYLOAD>> \o DECISION_HIT,
     MAGIC_COOKIE \o <<MSG_TYPE_REQUEST>> \o DECISION_STAND}

\* ------------------------------------------------- handle_client, by branch
\* variant: every well-framed payload counts as a decision
IsRecognizedAnyPayload(d) == d # None

\* `decision in (DECISION_HIT, DECISION_STAND)`
IsRecognized(d) == d \in {DECISION_HIT, DECISION_STAND}

\* variant: no player sum ends the player turn
IsBustNever(s) == FALSE

\* variant: 21 already counts as a bust
IsBustAt21(s) == s >= 21

\* `p_sum > 21`
IsBust(s) == s > 21

\* variant: the dealer stands one point early
DealerStandsAt16(s) == s >= 16

\* `dealer_sum >= 17`, at the reveal and in the draw loop
DealerStands(s) == s >= 17

\* variant: the loop runs once too often
LoopHasNextInclusive(idx, rounds) == idx <= rounds

\* the for loop of handle_client has another iteration
LoopHasNext(idx, rounds) == idx < rounds

\* variant: the return value of play_one_round is not tested
AfterRoundIgnoringOk(okv) == "loop"

\* `if not ok: return`, else back to the loop head
AfterRound(okv) == IF ~okv THEN "closed" ELSE "loop"

\* variant: the deal sends both dealer cards
DealMessagesWithHidden(pl, dl) ==
    <<CardMessage(RESULT_NOT_OVER, pl[1]), CardMessage(RESULT_NOT_OVER, pl[2]),
      CardMessage(RESULT_NOT_OVER, dl[1]), CardMessage(RESULT_NOT_OVER, dl[2])>>

\* the three frames of the deal: the player's cards and dealer[0]
DealMessages(pl, dl) ==
    <<CardMessage(RESULT_NOT_OVER, pl[1]), CardMessage(RESULT_NOT_OVER, pl[2]),
      CardMessage(RESULT_NOT_OVER, dl[1])>>

\* result tag of a HIT card
HitTag(ps) == IF IsBust(ps) THEN RESULT_LOSS ELSE RESULT_NOT_OVER

\* result tag of the reveal of the hidden card
RevealTag(ps, ds) ==
    IF DealerStands(ds) THEN decide_result(ps, ds) ELSE RESULT_NOT_OVER

\* variant: every drawn card carries the comparison of the two sums
DrawTagAlwaysFinal(ps, ds) ==
    IF ds > 21 THEN RESULT_WIN ELSE decide_result(ps, ds)

\* result tag of a card the dealer draws
DrawTag(ps, ds) ==
    IF ds > 21 THEN RESULT_WIN
    ELSE IF DealerStands(ds) THEN decide_result(ps, ds)
    ELSE RESULT_NOT_OVER

\* play_one_round reaches `return okv`
Return(okv) ==
    /\ ok' = okv
    /\ pc' = "return"
    /\ UNCHANGED conn

\* play_one_round blocks at its next receive or send
Continue(at) == pc' = at /\ UNCHANGED <<ok, conn>>

\* one sendall: the frame goes out and the round goes on or completes, or
\* OSError is raised and the round returns False (never on the connection
\* to the client modelled, which is reliable)
Send(frame, completes, at) ==
    \/ /\ sent' = Append(sent, frame)
       /\ UNCHANGED faulted
       /\ IF completes THEN Return(TRUE) ELSE Continue(at)
    \/ /\ s2c = NoWire
       /\ UNCHANGED sent
       /\ faulted' = TRUE
       /\ Return(FALSE)

Init ==
    /\ pc = "request"
    /\ conn = "open"
    /\ parsed = None
    /\ round_idx = 0
    /\ ok = FALSE
    /\ deck = {}
    /\ player = <<>>
    /\ dealer = <<>>
    /\ p_sum = 0
    /\ dealer_sum = 0
    /\ decision = Unbound
    /\ sent = <<>>
    /\ stood = FALSE
    /\ faulted = FALSE
    /\ shuffles = "top"
    /\ parked = <<>>
    /\ s2c = NoWire /\ c2s = NoWire
    /\ idle = 0
    /\ FnOff
    /\ ListenerOff
    /\ ClientOff

\* handle_client up to the for loop: parse_request_binary_or_text
ParseRequest ==
    /\ pc = "request"
    /\ \E stream \in Incoming(HandshakeStreams), tail \in {"eof", "timeout"} :
         LET res == parse_request_binary_or_text(stream, tail)
         IN /\ IF res = None THEN TRUE ELSE res[1] <= MaxRounds
            /\ parsed' = res
            /\ faulted' = (res = None /\ (Len(stream) < REQUEST_STRUCT_size \/ tail = "timeout"))
            /\ IF res = None
               THEN pc' = "closed" /\ conn' = "closed"
               ELSE pc' = "loop" /\ conn' = conn
    /\ UNCHANGED <<round_idx, ok, deck, player, dealer, p_sum, dealer_sum,
                   decision, sent, stood>>
    /\ idle' = 0
    /\ UNCHANGED beside_dealer
    /\ UNCHANGED shuffles
    /\ DealerWire(TRUE)

\* a loop iteration begins: play_one_round deals and sends three frames
StartRound ==
    /\ pc = "loop"
    /\ LoopHasNext(round_idx, parsed[1])
    /\ round_idx' = round_idx + 1
    /\ ok' = FALSE
    /\ \E c1 \in Poppable(build_deck) :
       \E c2 \in Poppable(Pop(build_deck, c1)) :
       \E c3 \in Poppable(Pop(Pop(build_deck, c1), c2)) :
       \E c4 \in Poppable(Pop(Pop(Pop(build_deck, c1), c2), c3)) :
         /\ deck' = Pop(Pop(Pop(Pop(build_deck, c1), c2), c3), c4)
         /\ player' = <<c1, c2>>
         /\ dealer' = <<c3, c4>>
    /\ p_sum' = hand_sum(player')
    /\ dealer_sum' = 0
    /\ decision' = Unbound
    /\ stood' = FALSE
    /\ \E n \in IF s2c = NoWire THEN 0..Len(DealMessages(player', dealer'))
                ELSE {Len(DealMessages(player', dealer'))} :
         /\ sent' = Prefix(DealMessages(player', dealer'), n)
         /\ IF n = Len(DealMessages(player', dealer'))
            THEN pc' = "player_turn" /\ UNCHANGED <<conn, faulted>>
            ELSE pc' = "return" /\ faulted' = TRUE /\ UNCHANGED conn
    /\ UNCHANGED parsed
    /\ idle' = 0
    /\ UNCHANGED beside_dealer
    /\ UNCHANGED shuffles
    /\ DealerWire(FALSE)

\* play_one_round's frame is gone and handle_client tests ok: the next
\* iteration, or `return` through finally, which closes the connection
RoundReturn ==
    /\ pc = "return"
    /\ pc' = AfterRound(ok)
    /\ conn' = IF AfterRound(ok) = "closed" THEN "closed" ELSE conn
    /\ deck' = {}
    /\ player' = <<>>
    /\ dealer' = <<>>
    /\ p_sum' = 0
    /\ dealer_sum' = 0
    /\ decision' = Unbound
    /\ sent' = <<>>
    /\ stood' = FALSE
    /\ UNCHANGED <<parsed, round_idx, ok, faulted>>
    /\ idle' = 0
    /\ UNCHANGED beside_dealer
    /\ UNCHANGED shuffles
    /\ DealerWire(FALSE)

\* the for loop is exhausted: finally closes the connection
SessionEnd ==
    /\ pc = "loop"
    /\ ~LoopHasNext(round_idx, parsed[1])
    /\ pc' = "closed"
    /\ conn' = "closed"
    /\ UNCHANGED <<parsed, round_idx, ok, deck, player, dealer, p_sum,
                   dealer_sum, decision, sent, stood, faulted>>
    /\ idle' = 0
    /\ UNCHANGED beside_dealer
    /\ UNCHANGED shuffles
    /\ DealerWire(FALSE)

\* recv_exact returns None in the player turn: timeout, reset or peer close
RecvFault ==
    /\ pc = "player_turn"
    /\ faulted' = TRUE
    /\ Return(FALSE)
    /\ UNCHANGED <<parsed, round_idx, deck, player, dealer, p_sum, dealer_sum,
                   decision, sent, stood>>
    /\ idle' = 0
    /\ UNCHANGED beside_dealer
    /\ UNCHANGED shuffles
    /\ DealerWire(FALSE)

\* a frame whose decision is neither HIT nor STAND: `continue`
RecvIgnored ==
    /\ pc = "player_turn"
    /\ \E raw \in Incoming(DecisionFrames) :
         /\ decision' = unpack_payload_decision(raw)
         /\ ~IsRecognized(decision')
    /\ UNCHANGED <<pc, conn, parsed, round_idx, ok, deck, player, dealer,
                   p_sum, dealer_sum, sent, stood, faulted>>
    /\ idle' = 0
    /\ UNCHANGED beside_dealer
    /\ UNCHANGED shuffles
    /\ DealerWire(TRUE)

\* HIT: one card to the player, sent with LOSS on a bust
RecvHit ==
    /\ pc = "player_turn"
    /\ \E raw \in Incoming(DecisionFrames) :
         /\ decision' = unpack_payload_decision(raw)
         /\ IsRecognized(decision')
         /\ decision' = DECISION_HIT
    /\ \E card \in Poppable(deck) :
         /\ deck' = Pop(deck, card)
         /\ player' = Append(player, card)
         /\ p_sum' = hand_sum(player')
         /\ Send(CardMessage(HitTag(p_sum'), card), IsBust(p_sum'), "player_turn")
    /\ UNCHANGED <<parsed, round_idx, dealer, dealer_sum, stood>>
    /\ idle' = 0
    /\ UNCHANGED beside_dealer
    /\ UNCHANGED shuffles
    /\ DealerWire(TRUE)

\* STAND: the dealer turn begins with the reveal of the hidden card
RecvStand ==
    /\ pc = "player_turn"
    /\ \E raw \in Incoming(DecisionFrames) :
         /\ decision' = unpack_payload_decision(raw)
         /\ IsRecognized(decision')
         /\ decision' # DECISION_HIT
    /\ stood' = TRUE
    /\ dealer_sum' = hand_sum(dealer)
    /\ Send(CardMessage(RevealTag(p_sum, dealer_sum'), dealer[2]),
            DealerStands(dealer_sum'), "dealer_draw")
    /\ UNCHANGED <<parsed, round_idx, deck, player, dealer, p_sum>>
    /\ idle' = 0
    /\ UNCHANGED beside_dealer
    /\ UNCHANGED shuffles
    /\ DealerWire(TRUE)

\* one turn of the dealer's draw loop
DealerDraw ==
    /\ pc = "dealer_draw"
    /\ \E card \in Poppable(deck) :
         /\ deck' = Pop(deck, card)
         /\ dealer' = Append(dealer, card)
         /\ dealer_sum' = hand_sum(dealer')
         /\ Send(CardMessage(DrawTag(p_sum, dealer_sum'), card),
                 dealer_sum' > 21 \/ DealerStands(dealer_sum'), "dealer_draw")
    /\ UNCHANGED <<parsed, round_idx, player, p_sum, decision, stood>>
    /\ idle' = 0
    /\ UNCHANGED beside_dealer
    /\ UNCHANGED shuffles
    /\ DealerWire(FALSE)

Next ==
    \/ ParseRequest
    \/ StartRound
    \/ RoundReturn
    \/ SessionEnd
    \/ RecvFault
    \/ RecvIgnored
    \/ RecvHit
    \/ RecvStand
    \/ DealerDraw

Spec == Init /\ [][Next]_vars

TypeOK ==
    /\ pc \in {"request", "loop", "player_turn", "dealer_draw", "return", "closed"}
    /\ conn \in {"open", "closed"}
    /\ round_idx \in 0..MaxRounds
    /\ ok \in BOOLEAN
    /\ deck \subseteq build_deck
    /\ p_sum \in 0..40
    /\ dealer_sum \in 0..40

\* ------------------------------------------------------------ observations
\* play_one_round is at `return True`
RoundCompleted == pc = "return" /\ ok

\* the i-th frame of this round as the client's decoder reads it
SentPayload(i) == unpack_payload_card(sent[i])
SentTag(i) == Payload_result(SentPayload(i))
SentCard(i) == <<Payload_rank(SentPayload(i)), Payload_suit(SentPayload(i))>>
SentCards == {SentCard(i) : i \in 1..Len(sent)}

FinalTags == {RESULT_WIN, RESULT_LOSS, RESULT_TIE}

\* b"Hitxx": well framed, not a decision
UnknownPayload == <<72, 105, 116, 120, 120>>

\* ---------------------------------------------------------------------- C1
\* C1: in every completed round the result tag of the last CardMessage is
\* decide_result of the final player and dealer hand sums.
C1_FinalTagIsDecideResult ==
    RoundCompleted =>
        SentTag(Len(sent)) = decide_result(hand_sum(player), hand_sum(dealer))

\* ---------------------------------------------------------------------- C2
\* C2: in the dealer turn a card is drawn only while the dealer's sum is
\* below 17; after STAND the dealer is in its draw loop exactly when its sum
\* is below 17, and a completed round ended on the first card that brought
\* the sum to 17 or more.
C2_DealerDrawsExactlyBelow17 ==
    /\ [][(Len(dealer') > Len(dealer) /\ Len(dealer) >= 2)
            => (stood /\ pc = "dealer_draw" /\ hand_sum(dealer) < 17)]_vars
    /\ []((stood /\ ~faulted) =>
            /\ (pc = "dealer_draw") <=> (hand_sum(dealer) < 17)
            /\ RoundCompleted <=> (hand_sum(dealer) >= 17))
    /\ []((RoundCompleted /\ stood /\ Len(dealer) > 2) =>
            hand_sum(SubSeq(dealer, 1, Len(dealer) - 1)) < 17)

\* the dealer drew twice: once staying below 17, once reaching it
C2_Witness ==
    /\ RoundCompleted /\ stood
    /\ Len(dealer) = 4
    /\ hand_sum(dealer) >= 17

\* ---------------------------------------------------------------------- C3
\* C3: a completed round has sent exactly one CardMessage tagged WIN, LOSS
\* or TIE, as its last one; every earlier one, and every one of a round
\* still in play, is tagged NOT_OVER.
C3_ExactlyOneFinalMessage ==
    /\ RoundCompleted =>
         /\ Len(sent) > 0
         /\ SentTag(Len(sent)) \in FinalTags
         /\ \A i \in 1..(Len(sent) - 1) : SentTag(i) = RESULT_NOT_OVER
    /\ pc \in {"player_turn", "dealer_draw"} =>
         \A i \in 1..Len(sent) : SentTag(i) = RESULT_NOT_OVER

\* a round with a hit, the reveal and a dealer draw has completed
C3_Witness ==
    /\ RoundCompleted /\ stood
    /\ Len(player) >= 3
    /\ Len(dealer) >= 3
    /\ Len(sent) >= 6

\* ---------------------------------------------------------------------- C4
\* C4: a HIT takes exactly one card from the deck into the player hand and
\* leaves the dealer hand alone; when the send succeeds, a sum above 21
\* sends that card with LOSS and ends the round, otherwise the card goes out
\* with NOT_OVER and the dealer waits in the player turn.  A round that
\* ended by a bust never revealed the hidden card nor drew for the dealer.
C4_HitDrawsOneCard ==
    /\ [][(pc = "player_turn" /\ Len(player') = Len(player) + 1) =>
            \E card \in deck :
              /\ deck' = deck \ {card}
              /\ player' = Append(player, card)
              /\ dealer' = dealer
              /\ ~faulted' =>
                   IF hand_sum(player') > 21
                   THEN /\ sent' = Append(sent, CardMessage(RESULT_LOSS, card))
                        /\ pc' = "return" /\ ok' /\ ~stood'
                   ELSE /\ sent' = Append(sent, CardMessage(RESULT_NOT_OVER, card))
                        /\ pc' = "player_turn"]_vars
    /\ []((RoundCompleted /\ ~stood) =>
            /\ hand_sum(player) > 21
            /\ Len(dealer) = 2
            /\ dealer[2] \notin SentCards)

\* the player held 12, hit, drew a ten-valued card and lost on it
C4_Witness ==
    /\ RoundCompleted /\ ~stood
    /\ Len(player) = 3
    /\ hand_sum(SubSeq(player, 1, 2)) = 12
    /\ hand_sum(player) = 22
    /\ SentTag(Len(sent)) = RESULT_LOSS

\* ---------------------------------------------------------------------- C5
\* C5: until the player has sent STAND the hidden card is in no frame sent:
\* the frames are the player's two cards and the upcard, then the player's
\* hit cards in order; the player turn starts with exactly these three, all
\* NOT_OVER.
C5_HiddenCardNotSentBeforeStand ==
    /\ (Len(dealer) >= 2 /\ ~stood) =>
         /\ dealer[2] \notin SentCards
         /\ Len(sent) <= Len(player) + 1
         /\ \A i \in 1..Len(sent) :
              SentCard(i) = IF i <= 2 THEN player[i]
                            ELSE IF i = 3 THEN dealer[1]
                            ELSE player[i - 1]
    /\ pc = "player_turn" =>
         /\ Len(sent) = Len(player) + 1
         /\ \A i \in 1..3 : SentTag(i) = RESULT_NOT_OVER

\* a round that ended by a bust after two hits: five frames, none the hidden
C5_Witness ==
    /\ RoundCompleted /\ ~stood
    /\ Len(sent) = 5
    /\ Len(dealer) = 2

\* ---------------------------------------------------------------------- C6
\* C6: receiving a well-framed Decision whose payload is neither HIT nor
\* STAND changes nothing of the round: deck, hands, sums and frames sent stay
\* as they are and the dealer keeps waiting in the player turn.
C6_UnknownPayloadIgnored ==
    [][(pc = "player_turn" /\ decision' = UnknownPayload /\ decision' # decision)
         => UNCHANGED <<pc, conn, parsed, round_idx, ok, deck, player, dealer,
                        p_sum, dealer_sum, sent, stood, faulted>>]_vars

\* after a hit the dealer got an unknown payload and still waits
C6_Witness ==
    /\ pc = "player_turn"
    /\ decision = UnknownPayload
    /\ Len(player) = 3
    /\ Len(sent) = 4

\* ---------------------------------------------------------------------- C7
\* C7: a 10-byte block with a wrong cookie or type tag received in the
\* player turn aborts the connection: the dealer is no longer in the round.
C7_InvalidFrameAborts ==
    [][(pc = "player_turn" /\ decision' = None /\ decision' # decision)
         => pc' \notin {"player_turn", "dealer_draw"}]_vars

\* ---------------------------------------------------------------------- C8
\* C8: once a send or receive has failed, the round has returned False or
\* the connection is closed; the only step left closes the connection, and
\* no frame is sent and no round is started after the failure.
C8_FaultEndsSession ==
    /\ [](faulted => /\ pc \in {"return", "closed"}
                     /\ pc = "return" => ~ok
                     /\ pc = "closed" => conn = "closed")
    /\ [][faulted => /\ faulted'
                     /\ pc' = "closed" /\ conn' = "closed"
                     /\ Len(sent') <= Len(sent)
                     /\ round_idx' = round_idx]_vars

\* a fault in a round closed a session that had rounds left to play
C8_Witness ==
    /\ faulted
    /\ conn = "closed"
    /\ parsed # None
    /\ round_idx >= 1
    /\ round_idx < parsed[1]

\* ---------------------------------------------------------------------- C9
\* C9: rounds are started one at a time, each after the previous one has
\* returned True, never more than requested; a session that closes without
\* a transport fault has played exactly the requested number.
C9_RoundsPlayed ==
    /\ [](parsed = None => round_idx = 0)
    /\ [](parsed # None => round_idx <= parsed[1])
    /\ []((pc = "closed" /\ ~faulted /\ parsed # None) =>
            /\ round_idx = parsed[1]
            /\ round_idx > 0 => ok)
    /\ [][round_idx' # round_idx =>
            /\ round_idx' = round_idx + 1
            /\ pc = "loop"
            /\ round_idx > 0 => ok]_vars

\* a session of two or more rounds ran to its end without a fault
C9_Witness ==
    /\ pc = "closed" /\ ~faulted
    /\ parsed # None
    /\ round_idx >= 2
    /\ round_idx = parsed[1]

\* --------------------------------------------------------------------- C10
\* C10: every session the dealer starts has a round count in 1..255.
C10_SessionRoundsInRange ==
    parsed # None => RoundsInRange(parsed[1])

\* ================================================ the codec, call by call
\* One message is constructed, encoded, possibly altered on the wire, and
\* handed to one of the four decoders.

\* the handler of server.py is not running
DealerOff ==
    /\ pc = "off"
    /\ conn = "closed"
    /\ parsed = None
    /\ round_idx = 0
    /\ ok = FALSE
    /\ deck = {}
    /\ player = <<>>
    /\ dealer = <<>>
    /\ p_sum = 0
    /\ dealer_sum = 0
    /\ decision = Unbound
    /\ sent = <<>>
    /\ stood = FALSE
    /\ faulted = FALSE
    /\ shuffles = "top"
    /\ parked = <<>>
    /\ s2c = NoWire /\ c2s = NoWire
    /\ idle = 0

\* names given to the encoders: empty, short, with an embedded zero byte,
\* of exactly TEAM_NAME_LEN bytes, and one byte longer
Names ==
    {<<>>, PeerName, <<65, 0, 66>>, Repeat(66, TEAM_NAME_LEN),
     Repeat(67, TEAM_NAME_LEN + 1)}

Ports == {0, 80, 13122, 65535}

\* constructed messages, as the tuples of their fields
Offers == {<<p, n>> : p \in Ports, n \in Names}
Requests == {<<r, n>> : r \in {1, 2, 255}, n \in Names}
Decisions == {DECISION_HIT, DECISION_STAND}
Cards == {<<res, rank, suit>> : res \in 0..3, rank \in RANKS, suit \in SUITS}

\* (index, value) pairs a peer may overwrite in a frame: cookie bytes, the
\* type tag, and the bytes that hold the fields
TamperBytes ==
    {<<1, 0>>, <<4, 187>>, <<5, 0>>, <<5, 2>>, <<5, 3>>, <<5, 4>>,
     <<6, 0>>, <<6, 4>>, <<6, 255>>, <<7, 1>>, <<8, 0>>, <<8, 14>>,
     <<9, 4>>, <<9, 120>>}

\* what can reach a decoder instead of frame: one byte less, one byte more,
\* or one byte overwritten
Tampered(frame) ==
    {Prefix(frame, Len(frame) - 1), frame \o <<0>>}
    \cup {[frame EXCEPT ![tb[1]] = tb[2]] : tb \in TamperBytes}

CodecInit ==
    /\ DealerOff
    /\ ListenerOff
    /\ ClientOff
    /\ fn_pc = "input"
    /\ fn_sent = None
    /\ fn_data = None
    /\ fn_dec = "none"
    /\ fn_out = None
    /\ \/ fn_kind = "offer" /\ fn_msg \in Offers
       \/ fn_kind = "request" /\ fn_msg \in Requests
       \/ fn_kind = "decision" /\ fn_msg \in Decisions
       \/ fn_kind = "card" /\ fn_msg \in Cards

\* an encoder has returned frame
Packed(frame) ==
    /\ fn_pc' = "packed"
    /\ fn_sent' = frame
    /\ fn_data' = frame
    /\ UNCHANGED <<fn_kind, fn_msg, fn_dec, fn_out, beside_fn>>

PackOffer ==
    /\ fn_pc = "input" /\ fn_kind = "offer"
    /\ Packed(pack_offer(fn_msg[1], fn_msg[2]))

PackRequest ==
    /\ fn_pc = "input" /\ fn_kind = "request"
    /\ Packed(pack_request(fn_msg[1], fn_msg[2]))

PackDecision ==
    /\ fn_pc = "input" /\ fn_kind = "decision"
    /\ Packed(pack_payload_decision(fn_msg))

PackCard ==
    /\ fn_pc = "input" /\ fn_kind = "card"
    /\ Packed(pack_payload_card(fn_msg[1], fn_msg[2], fn_msg[3]))

\* the peer, or the network, delivers other bytes than the encoder's
Tamper ==
    /\ fn_pc = "packed"
    /\ fn_pc' = "wire"
    /\ fn_data' \in Tampered(fn_data)
    /\ UNCHANGED <<fn_kind, fn_msg, fn_sent, fn_dec, fn_out, beside_fn>>

\* decoder dec has returned out
Unpacked(dec, out) ==
    /\ fn_pc' = "done"
    /\ fn_dec' = dec
    /\ fn_out' = out
    /\ UNCHANGED <<fn_kind, fn_msg, fn_sent, fn_data, beside_fn>>

UnpackOffer ==
    /\ fn_pc \in {"packed", "wire"}
    /\ Unpacked("offer", unpack_offer(fn_data))

UnpackRequest ==
    /\ fn_pc \in {"packed", "wire"}
    /\ Unpacked("request", unpack_request(fn_data))

UnpackDecision ==
    /\ fn_pc \in {"packed", "wire"}
    /\ Unpacked("decision", unpack_payload_decision(fn_data))

UnpackCard ==
    /\ fn_pc \in {"packed", "wire"}
    /\ Unpacked("card", unpack_payload_card(fn_data))

CodecNext ==
    \/ PackOffer
    \/ PackRequest
    \/ PackDecision
    \/ PackCard
    \/ Tamper
    \/ UnpackOffer
    \/ UnpackRequest
    \/ UnpackDecision
    \/ UnpackCard

CodecSpec == CodecInit /\ [][CodecNext]_vars

\* size and type tag each decoder expects
StructSize(dec) ==
    CASE dec = "offer" -> OFFER_STRUCT_size
      [] dec = "request" -> REQUEST_STRUCT_size
      [] dec = "decision" -> PAYLOAD_C2S_STRUCT_size
      [] dec = "card" -> PAYLOAD_S2C_STRUCT_size

TypeTag(dec) ==
    CASE dec = "offer" -> MSG_TYPE_OFFER
      [] dec = "request" -> MSG_TYPE_REQUEST
      [] dec = "decision" -> MSG_TYPE_PAYLOAD
      [] dec = "card" -> MSG_TYPE_PAYLOAD

\* data has the length, cookie and type tag of dec's message
WellFramed(dec, data) ==
    IF Len(data) # StructSize(dec) THEN FALSE
    ELSE SubSeq(data, 1, 4) = MAGIC_COOKIE /\ data[5] = TypeTag(dec)

\* a field of the well-framed data lies outside the range the message
\* declares for it
FieldOutOfRange(dec, data) ==
    CASE dec = "offer" -> FALSE
      [] dec = "request" -> data[6] \notin 1..255
      [] dec = "decision" -> Suffix(data, 5) \notin {DECISION_HIT, DECISION_STAND}
      [] dec = "card" -> \/ data[6] \notin 0..3
                         \/ (data[7] * 256 + data[8]) \notin 1..13
                         \/ data[9] \notin 0..3

\* --------------------------------------------------------------------- C11
\* C11: a decoder given a frame of the right length, cookie and type tag
\* with a field outside its declared range (Request rounds outside 1..255,
\* Decision payload neither HIT nor STAND, CardMessage result outside 0..3,
\* rank outside 1..13 or suit outside 0..3) returns None.
C11_OutOfRangeFieldIsInvalid ==
    (fn_pc = "done" /\ WellFramed(fn_dec, fn_data) /\ FieldOutOfRange(fn_dec, fn_data))
        => fn_out = None

\* --------------------------------------------------------------------- C12
\* C12: each of the four decoders returns None, and returns (it has no
\* raising path), for every byte string whose length differs from the fixed
\* size, whose first four bytes are not the magic cookie, or whose fifth
\* byte is not the decoder's type tag.
C12_MisframedIsInvalid ==
    (fn_pc = "done" /\ ~WellFramed(fn_dec, fn_data)) => fn_out = None

\* the card decoder refused nine bytes with the cookie and another type tag
C12_Witness ==
    /\ fn_pc = "done" /\ fn_dec = "card"
    /\ Len(fn_data) = PAYLOAD_S2C_STRUCT_size
    /\ SubSeq(fn_data, 1, 4) = MAGIC_COOKIE
    /\ fn_data[5] = MSG_TYPE_REQUEST
    /\ fn_out = None

\* --------------------------------------------------------------------- C13
\* the message constructed carries a name
HasName == fn_kind \in {"offer", "request"}

\* the frame an encoder returned went unaltered to the decoder of its kind
RoundTripped == fn_pc = "done" /\ fn_data = fn_sent /\ fn_dec = fn_kind

\* C13 as stated: every valid message with a name of at most 32 bytes
\* decodes, from its own encoding, to a message equal field by field.
C13_RoundTrip ==
    (RoundTripped /\ (HasName => Len(fn_msg[2]) <= TEAM_NAME_LEN))
        => fn_out = fn_msg

\* C13, amended: the round trip returns the message when, in addition, its
\* name contains no zero byte (the decoder stops at the first one).
C13_RoundTripWithoutZeroByte ==
    (/\ RoundTripped
     /\ HasName => /\ Len(fn_msg[2]) <= TEAM_NAME_LEN
                   /\ \A i \in 1..Len(fn_msg[2]) : fn_msg[2][i] # 0)
        => fn_out = fn_msg

\* an Offer with a two-byte port and a name that fills the field came back
C13_Witness ==
    /\ RoundTripped /\ fn_kind = "offer"
    /\ fn_msg = <<13122, Repeat(66, TEAM_NAME_LEN)>>
    /\ fn_out = fn_msg

\* ================================================ decide_result, call by call
DecideInit ==
    /\ DealerOff
    /\ ListenerOff
    /\ ClientOff
    /\ fn_pc = "input"
    /\ fn_kind = "decide_result"
    /\ fn_msg \in (0..MaxSum) \X (0..MaxSum)
    /\ fn_sent = None
    /\ fn_data = None
    /\ fn_dec = "none"
    /\ fn_out = None

\* decide_result(player_sum, dealer_sum) returns
DecideResult ==
    /\ fn_pc = "input"
    /\ fn_pc' = "done"
    /\ fn_out' = <<decide_result(fn_msg[1], fn_msg[2])>>
    /\ UNCHANGED <<fn_kind, fn_msg, fn_sent, fn_data, fn_dec, beside_fn>>

DecideNext == DecideResult

DecideSpec == DecideInit /\ [][DecideNext]_vars

\* --------------------------------------------------------------------- C14
\* C14: for all sums in 0..MaxSum decide_result returns WIN, LOSS or TIE,
\* never NOT_OVER: LOSS exactly when the player is above 21, or neither is
\* and the player has less; WIN exactly when the player is not above 21 and
\* the dealer is, or neither is and the player has more; TIE exactly when
\* neither is above 21 and the sums are equal.
C14_DecideResultTable ==
    fn_pc = "done" =>
        LET ps == fn_msg[1]
            ds == fn_msg[2]
            result == fn_out[1]
        IN /\ result \in {RESULT_WIN, RESULT_LOSS, RESULT_TIE}
           /\ result # RESULT_NOT_OVER
           /\ (result = RESULT_LOSS) <=>
                \/ ps > 21
                \/ ps <= 21 /\ ds <= 21 /\ ps < ds
           /\ (result = RESULT_WIN) <=>
                \/ ps <= 21 /\ ds > 21
                \/ ps <= 21 /\ ds <= 21 /\ ps > ds
           /\ (result = RESULT_TIE) <=>
                (ps <= 21 /\ ds <= 21 /\ ps = ds)

\* both above 21: the player's bust takes precedence
C14_Witness ==
    /\ fn_pc = "done" /\ fn_kind = "decide_result"
    /\ fn_msg = <<22, 22>>
    /\ fn_out = <<RESULT_LOSS>>

\* ================================================ wait_for_offer (client.py)
\* The network is the environment: each udp.recvfrom either returns a
\* datagram, less than the socket timeout after it was called, or raises
\* socket.timeout.  A clock tick is a quarter of a second.

\* b"Blackijecky - server"
PREFERRED_SERVER_NAME ==
    <<66, 108, 97, 99, 107, 105, 106, 101, 99, 107, 121, 32, 45, 32,
      115, 101, 114, 118, 101, 114>>

\* 3.0 seconds, in ticks
PREFERRED_WAIT_SECONDS == 12

\* udp.settimeout(0.5), in ticks
UDP_TIMEOUT == 2

\* str.rstrip(chars)
RECURSIVE rstrip(_, _)
rstrip(str, chars) ==
    IF str # <<>> /\ str[Len(str)] \in chars
    THEN rstrip(SubSeq(str, 1, Len(str) - 1), chars)
    ELSE str

\* str.lstrip(chars)
lstrip(str, chars) == Suffix(str, FirstNotIn(str, chars, 1) - 1)

\* server_name.rstrip("\x00").strip()
_normalize_server_name(server_name) ==
    lstrip(rstrip(rstrip(server_name, {0}), Whitespace), Whitespace)

\* b"Other"
OtherName == <<79, 116, 104, 101, 114>>

\* (data, addr[0]) of the datagrams that reach the socket: Offers of the
\* preferred server (one with blanks around the name), Offers of two other
\* servers, and from 10.0.0.9 an Offer with a wrong cookie, one with a
\* wrong type tag, one cut short, and a Request
Datagrams ==
    {<<pack_offer(5000, PREFERRED_SERVER_NAME), "10.0.0.1">>,
     <<pack_offer(5001, <<32>> \o PREFERRED_SERVER_NAME \o <<32>>), "10.0.0.4">>,
     <<pack_offer(6000, OtherName), "10.0.0.2">>,
     <<pack_offer(7000, PeerName), "10.0.0.3">>,
     <<[pack_offer(5000, PREFERRED_SERVER_NAME) EXCEPT ![1] = 0], "10.0.0.9">>,
     <<[pack_offer(6000, OtherName) EXCEPT ![5] = MSG_TYPE_REQUEST], "10.0.0.9">>,
     <<Prefix(pack_offer(6000, OtherName), OFFER_STRUCT_size - 1), "10.0.0.9">>,
     <<pack_request(1, PREFERRED_SERVER_NAME), "10.0.0.9">>}

\* (server_ip, offer.tcp_port, server_name_norm)
Endpoint(offer, server_ip) ==
    <<server_ip, Offer_tcp_port(offer),
      _normalize_server_name(Offer_server_name(offer))>>

\* variant: the preferred server's Offer is answered with the first one seen
PreferredReturnFirstSeen(first, endpoint) == first

\* `return server_ip, offer.tcp_port, server_name_norm`
PreferredReturn(first, endpoint) == endpoint

\* time.time() once d more ticks have passed
Later(d) == IF now + d > MaxNow THEN MaxNow ELSE now + d

ListenerInit ==
    /\ DealerOff
    /\ FnOff
    /\ ClientOff
    /\ l_pc = "recvfrom"
    /\ start = 0
    /\ now = 0
    /\ first_any = None
    /\ l_data = None
    /\ l_addr = "none"
    /\ l_ret = None

\* udp.recvfrom raises socket.timeout: fall back when an Offer has been seen
\* and the window is over, else `continue`
RecvfromTimeout ==
    /\ l_pc = "recvfrom"
    /\ now' = Later(UDP_TIMEOUT)
    /\ IF first_any # None /\ (now' - start) >= PREFERRED_WAIT_SECONDS
       THEN l_pc' = "returned" /\ l_ret' = first_any
       ELSE UNCHANGED <<l_pc, l_ret>>
    /\ UNCHANGED <<start, first_any, l_data, l_addr, beside_listener>>

\* a datagram arrives before the timeout and unpack_offer refuses it
RecvMalformed ==
    /\ l_pc = "recvfrom"
    /\ \E dg \in Datagrams, d \in 1..(UDP_TIMEOUT - 1) :
         /\ unpack_offer(dg[1]) = None
         /\ l_data' = dg[1]
         /\ l_addr' = dg[2]
         /\ now' = Later(d)
    /\ UNCHANGED <<l_pc, start, first_any, l_ret, beside_listener>>

\* a valid Offer of another server arrives
RecvOffer ==
    /\ l_pc = "recvfrom"
    /\ \E dg \in Datagrams, d \in 1..(UDP_TIMEOUT - 1) :
         LET offer == unpack_offer(dg[1])
         IN /\ offer # None
            /\ Endpoint(offer, dg[2])[3] # PREFERRED_SERVER_NAME
            /\ l_data' = dg[1]
            /\ l_addr' = dg[2]
            /\ now' = Later(d)
            /\ first_any' = IF first_any = None THEN Endpoint(offer, dg[2])
                            ELSE first_any
    /\ UNCHANGED <<l_pc, start, l_ret, beside_listener>>

\* a valid Offer with the preferred name arrives
RecvPreferred ==
    /\ l_pc = "recvfrom"
    /\ \E dg \in Datagrams, d \in 1..(UDP_TIMEOUT - 1) :
         LET offer == unpack_offer(dg[1])
         IN /\ offer # None
            /\ Endpoint(offer, dg[2])[3] = PREFERRED_SERVER_NAME
            /\ l_data' = dg[1]
            /\ l_addr' = dg[2]
            /\ now' = Later(d)
            /\ first_any' = IF first_any = None THEN Endpoint(offer, dg[2])
                            ELSE first_any
            /\ l_ret' = PreferredReturn(first_any', Endpoint(offer, dg[2]))
    /\ l_pc' = "returned"
    /\ UNCHANGED <<start, beside_listener>>

ListenerNext ==
    \/ RecvfromTimeout
    \/ RecvMalformed
    \/ RecvOffer
    \/ RecvPreferred

ListenerSpec == ListenerInit /\ [][ListenerNext]_vars

\* the listener's thread keeps running: recvfrom always comes back, with a
\* datagram or with socket.timeout, whichever the network makes happen
ListenerFairSpec == ListenerSpec /\ WF_vars(ListenerNext)

\* the datagram last received is a well-framed Offer whose normalized name
\* is the preferred one
PreferredReceived ==
    /\ WellFramed("offer", l_data)
    /\ _normalize_server_name(_decode_name(Suffix(l_data, 7))) = PREFERRED_SERVER_NAME

\* the endpoints of the well-framed Offers among the datagrams
ValidEndpoints ==
    {<<dg[2], dg[1][6] * 256 + dg[1][7],
       _normalize_server_name(_decode_name(Suffix(dg[1], 7)))>> :
        dg \in {d \in Datagrams : WellFramed("offer", d[1])}}

\* --------------------------------------------------------------------- C15
\* C15: once an Offer with the preferred name has been received the listener
\* has returned, and what it returned is that Offer's sender address and
\* tcp_port, also when another server's Offer was seen first.
C15_PreferredOfferReturned ==
    PreferredReceived =>
        /\ l_pc = "returned"
        /\ l_ret = <<l_addr, l_data[6] * 256 + l_data[7], PREFERRED_SERVER_NAME>>

\* another server's Offer was seen first, then the preferred one came
C15_Witness ==
    /\ l_pc = "returned"
    /\ first_any = <<"10.0.0.2", 6000, OtherName>>
    /\ l_ret = <<"10.0.0.1", 5000, PREFERRED_SERVER_NAME>>
    /\ now < PREFERRED_WAIT_SECONDS

\* --------------------------------------------------------------------- C16
\* C16: once a valid Offer has been seen and the wait window is over, the
\* listener eventually returns, whatever datagrams keep arriving.
C16_FallbackEventually ==
    (l_pc = "recvfrom" /\ first_any # None /\ (now - start) >= PREFERRED_WAIT_SECONDS)
        ~> (l_pc = "returned")

\* --------------------------------------------------------------------- C17
\* C17: a datagram that is not a well-framed Offer changes neither first_any
\* nor what is returned and leaves the listener waiting; start never
\* changes; first_any and the value returned are always endpoints of
\* well-framed Offers.
C17_MalformedDatagramDiscarded ==
    /\ [][(l_data' # l_data /\ ~WellFramed("offer", l_data'))
            => UNCHANGED <<l_pc, start, first_any, l_ret>>]_vars
    /\ [][start' = start]_vars
    /\ [](first_any # None => first_any \in ValidEndpoints)
    /\ [](l_ret # None => l_ret \in ValidEndpoints)

\* a wrong-cookie Offer with the preferred name came after another server's
\* Offer and the listener still waits
C17_Witness ==
    /\ l_pc = "recvfrom"
    /\ first_any = <<"10.0.0.2", 6000, OtherName>>
    /\ l_data = [pack_offer(5000, PREFERRED_SERVER_NAME) EXCEPT ![1] = 0]
    /\ l_ret = None

\* ============================== parse_request_binary_or_text, call by call
\* ASCII decimal of a natural number
RECURSIVE Decimal(_)
Decimal(n) == IF n < 10 THEN <<48 + n>> ELSE Decimal(n \div 10) \o <<48 + (n % 10)>>

\* what a peer may deliver on a fresh connection: the handshake blocks of
\* HandshakeStreams, and every round count up to MaxTextRounds as a bare
\* text line and as a line padded to the 38 bytes of the first read
ParseStreams ==
    HandshakeStreams
    \cup {Decimal(n) \o <<10>> : n \in 0..MaxTextRounds}
    \cup {TextLine(Decimal(n)) : n \in 0..MaxTextRounds}

ParseInit ==
    /\ DealerOff
    /\ ListenerOff
    /\ ClientOff
    /\ fn_pc = "input"
    /\ fn_kind = "parse_request_binary_or_text"
    /\ fn_msg \in ParseStreams \X {"eof", "timeout"}
    /\ fn_sent = None
    /\ fn_data = None
    /\ fn_dec = "none"
    /\ fn_out = None

\* parse_request_binary_or_text(conn) returns
ParseCall ==
    /\ fn_pc = "input"
    /\ fn_pc' = "done"
    /\ fn_out' = parse_request_binary_or_text(fn_msg[1], fn_msg[2])
    /\ UNCHANGED <<fn_kind, fn_msg, fn_sent, fn_data, fn_dec, beside_fn>>

ParseNext == ParseCall

ParseSpec == ParseInit /\ [][ParseNext]_vars

\* --------------------------------------------------------------------- C18
\* C18: a connection whose bytes are a text line, a round count in 1..255
\* and a newline ("4\n" among them), is accepted with that round count and
\* the placeholder client name.
C18_TextLineAccepted ==
    \A n \in 1..255 :
        (fn_pc = "done" /\ fn_msg[1] = Decimal(n) \o <<10>>)
            => fn_out = <<n, UnknownTextClient>>

\* ============================================ handle_client under a clock
\* The socket timeouts of the handler, with time: a clock tick is twenty
\* seconds, idle counts the ticks since the handler's current receive began,
\* and every frame received starts a new receive.

\* REQUEST_TIMEOUT = 20.0 seconds, in ticks
REQUEST_TIMEOUT == 1

\* PLAYER_DECISION_TIMEOUT = 120.0 seconds, in ticks
PLAYER_DECISION_TIMEOUT == 6

\* the timeout set on the socket where the handler is blocked
SocketTimeout == IF pc = "request" THEN REQUEST_TIMEOUT ELSE PLAYER_DECISION_TIMEOUT

\* twenty seconds pass while the handler is blocked in a receive
Tick ==
    /\ pc \in {"request", "player_turn"}
    /\ idle < SocketTimeout
    /\ idle' = idle + 1
    /\ UNCHANGED <<pc, conn, parsed, round_idx, ok, deck, player, dealer, p_sum,
                   dealer_sum, decision, sent, stood, faulted, beside_dealer>>
    /\ UNCHANGED shuffles
    /\ DealerWire(FALSE)

\* recv_exact(conn, 38) returns None on socket.timeout: the handler returns
HandshakeTimeout ==
    /\ pc = "request"
    /\ idle = REQUEST_TIMEOUT
    /\ parsed' = None
    /\ faulted' = TRUE
    /\ pc' = "closed"
    /\ conn' = "closed"
    /\ idle' = 0
    /\ UNCHANGED <<round_idx, ok, deck, player, dealer, p_sum, dealer_sum,
                   decision, sent, stood, beside_dealer>>
    /\ UNCHANGED shuffles
    /\ DealerWire(FALSE)

\* recv_exact returns None on socket.timeout in the player turn
DecisionTimeout ==
    /\ pc = "player_turn"
    /\ idle = PLAYER_DECISION_TIMEOUT
    /\ faulted' = TRUE
    /\ Return(FALSE)
    /\ idle' = 0
    /\ UNCHANGED <<parsed, round_idx, deck, player, dealer, p_sum, dealer_sum,
                   decision, sent, stood, beside_dealer>>
    /\ UNCHANGED shuffles
    /\ DealerWire(FALSE)

TimedNext ==
    \/ ParseRequest
    \/ StartRound
    \/ RoundReturn
    \/ SessionEnd
    \/ RecvFault
    \/ RecvIgnored
    \/ RecvHit
    \/ RecvStand
    \/ DealerDraw
    \/ Tick
    \/ HandshakeTimeout
    \/ DecisionTimeout

TimedSpec == Init /\ [][TimedNext]_vars

\* time passes, an expired timeout is raised, and the handler's thread runs
\* the steps that wait for nothing; what the peer sends, and when, is free
TimedFairSpec ==
    /\ TimedSpec
    /\ WF_vars(Tick)
    /\ WF_vars(HandshakeTimeout)
    /\ WF_vars(DecisionTimeout)
    /\ WF_vars(StartRound)
    /\ WF_vars(DealerDraw)
    /\ WF_vars(RoundReturn)
    /\ WF_vars(SessionEnd)

\* --------------------------------------------------------------------- C19
\* C19: every run of handle_client eventually returns with its connection
\* closed, whatever the peer sends or withholds.
C19_HandlerTerminates == <>(pc = "closed" /\ conn = "closed")

\* ================================================= play_session (client.py)
\* The dealer is the environment: every receive returns a 9-byte frame, or
\* None when the connection is lost or silent.  The frames of the deal are
\* tagged NOT_OVER, as play_one_round sends them; the frames that answer HIT
\* and follow STAND carry any tag.

\* cards of the frames met: an ace, a five and a king of hearts
ClientCards == {<<1, 0>>, <<5, 0>>, <<13, 0>>}

\* well-formed frames with a tag out of tags
ServerFrames(tags) == {CardMessage(t, c) : t \in tags, c \in ClientCards}

\* 9-byte frames unpack_payload_card refuses: a wrong cookie, a result of 4
BadFrames ==
    {[CardMessage(RESULT_NOT_OVER, <<1, 0>>) EXCEPT ![1] = 0],
     [CardMessage(RESULT_WIN, <<1, 0>>) EXCEPT ![6] = 4]}

\* `CLIENT_TEAM_NAME = "Blackijecky - client"`
CLIENT_TEAM_NAME ==
    <<66, 108, 97, 99, 107, 105, 106, 101, 99, 107, 121, 32, 45, 32, 99, 108,
      105, 101, 110, 116>>

\* variant: the client takes every frame for the last of its round
IsFinalAnyResult(result) == TRUE

\* `p.result != RESULT_NOT_OVER`: the frame ends the round
IsFinal(result) == result # RESULT_NOT_OVER

\* variant: a TIE is counted as a loss
TallyTieAsLoss(result, w, l, t) ==
    IF result = RESULT_WIN THEN <<w + 1, l, t>> ELSE <<w, l + 1, t>>

\* the if / elif / else on p.result: (wins, losses, ties) after it
Tally(result, w, l, t) ==
    IF result = RESULT_WIN THEN <<w + 1, l, t>>
    ELSE IF result = RESULT_LOSS THEN <<w, l + 1, t>>
    ELSE <<w, l, t + 1>>

ClientInit ==
    /\ DealerOff
    /\ FnOff
    /\ ListenerOff
    /\ c_pc = "connect"
    /\ c_choice = ""
    /\ c_rounds \in 1..MaxRounds
    /\ c_round_idx = 0
    /\ c_i = 0
    /\ player_sum = 0
    /\ wins = 0
    /\ losses = 0
    /\ ties = 0
    /\ rcv_final = <<>>
    /\ c_fault = FALSE

\* tcp.close() and `return wins, losses, ties` before the last round is over
EarlyReturn ==
    /\ c_pc' = "returned"
    /\ c_fault' = TRUE
    /\ UNCHANGED <<c_rounds, c_round_idx, c_i, player_sum, wins, losses, ties,
                   rcv_final>>

\* a final frame has been read: the counter for its result, then the next
\* iteration of the for loop, or tcp.close() and return after the last one
RoundOver(result, sum) ==
    /\ rcv_final' = Append(rcv_final, result)
    /\ wins' = Tally(result, wins, losses, ties)[1]
    /\ losses' = Tally(result, wins, losses, ties)[2]
    /\ ties' = Tally(result, wins, losses, ties)[3]
    /\ IF c_round_idx < c_rounds
       THEN /\ c_pc' = "deal"
            /\ c_round_idx' = c_round_idx + 1
            /\ c_i' = 0
            /\ player_sum' = 0
       ELSE /\ c_pc' = "returned"
            /\ player_sum' = sum
            /\ UNCHANGED <<c_round_idx, c_i>>
    /\ UNCHANGED <<c_rounds, c_fault>>

\* tcp.connect and the Request: the first round begins, or None is returned
\* (never on the connection to the dealer modelled, which is reliable)
Connect ==
    /\ c_pc = "connect"
    /\ \/ /\ c_pc' = "deal"
          /\ c_round_idx' = 1
       \/ /\ c2s = NoWire
          /\ c_pc' = "failed"
          /\ UNCHANGED c_round_idx
    /\ UNCHANGED <<c_choice, c_rounds, c_i, player_sum, wins, losses, ties,
                   rcv_final, c_fault, beside_client>>
    /\ ClientWire(FALSE, pack_request(c_rounds, CLIENT_TEAM_NAME))

\* recv_exact returns None: "Server disconnected."
ClientRecvNone ==
    /\ c_pc \in {"deal", "hit", "stand"}
    /\ EarlyReturn
    /\ UNCHANGED <<c_choice, beside_client>>
    /\ ClientWire(FALSE, <<>>)

\* one of the three frames of the deal
DealRecv ==
    /\ c_pc = "deal"
    /\ \E raw \in Arriving(ServerFrames({RESULT_NOT_OVER}) \cup BadFrames) :
         LET p == unpack_payload_card(raw)
         IN IF p = None THEN EarlyReturn
            ELSE /\ c_i' = c_i + 1
                 /\ player_sum' = IF c_i < 2
                                 THEN player_sum + card_value(Payload_rank(p))
                                 ELSE player_sum
                 /\ c_pc' = IF c_i' = 3 THEN "input" ELSE "deal"
                 /\ UNCHANGED <<c_rounds, c_round_idx, wins, losses, ties,
                                rcv_final, c_fault>>
    /\ UNCHANGED <<c_choice, beside_client>>
    /\ ClientWire(TRUE, <<>>)

\* an input starting with "h": HIT is sent, or sendall raises OSError
ChooseHit ==
    /\ c_pc = "input"
    /\ c_choice' = "h"
    /\ \/ /\ c_pc' = "hit"
          /\ UNCHANGED <<c_rounds, c_round_idx, c_i, player_sum, wins, losses,
                         ties, rcv_final, c_fault>>
       \/ c2s = NoWire /\ EarlyReturn
    /\ UNCHANGED beside_client
    /\ ClientWire(FALSE, pack_payload_decision(DECISION_HIT))

\* an input starting with "s": STAND is sent, or sendall raises OSError
ChooseStand ==
    /\ c_pc = "input"
    /\ c_choice' = "s"
    /\ \/ /\ c_pc' = "stand"
          /\ UNCHANGED <<c_rounds, c_round_idx, c_i, player_sum, wins, losses,
                         ties, rcv_final, c_fault>>
       \/ c2s = NoWire /\ EarlyReturn
    /\ UNCHANGED beside_client
    /\ ClientWire(FALSE, pack_payload_decision(DECISION_STAND))

\* any other input: "Type Hit or Stand."
ChooseOther ==
    /\ c_pc = "input"
    /\ c_choice' = "x"
    /\ UNCHANGED <<c_pc, c_rounds, c_round_idx, c_i, player_sum, wins, losses,
                   ties, rcv_final, c_fault, beside_client>>
    /\ ClientWire(FALSE, <<>>)

\* KeyboardInterrupt at the prompt
Interrupt ==
    /\ c_pc = "input"
    /\ EarlyReturn
    /\ UNCHANGED <<c_choice, beside_client>>
    /\ ClientWire(FALSE, <<>>)

\* the frame that answers HIT
HitRecv ==
    /\ c_pc = "hit"
    /\ \E raw \in Arriving(ServerFrames(0..3) \cup BadFrames) :
         LET p == unpack_payload_card(raw)
         IN IF p = None THEN EarlyReturn
            ELSE LET sum == player_sum + card_value(Payload_rank(p))
                 IN /\ s2c # NoWire \/ sum <= MaxSum
                    /\ IF IsFinal(Payload_result(p))
                       THEN RoundOver(Payload_result(p), sum)
                       ELSE /\ c_pc' = "input"
                            /\ player_sum' = sum
                            /\ UNCHANGED <<c_rounds, c_round_idx, c_i, wins,
                                           losses, ties, rcv_final, c_fault>>
    /\ UNCHANGED <<c_choice, beside_client>>
    /\ ClientWire(TRUE, <<>>)

\* a frame of the dealer's turn, after STAND
StandRecv ==
    /\ c_pc = "stand"
    /\ \E raw \in Arriving(ServerFrames(0..3) \cup BadFrames) :
         LET p == unpack_payload_card(raw)
         IN IF p = None THEN EarlyReturn
            ELSE IF IsFinal(Payload_result(p))
                 THEN RoundOver(Payload_result(p), player_sum)
                 ELSE UNCHANGED <<c_pc, c_rounds, c_round_idx, c_i, player_sum,
                                  wins, losses, ties, rcv_final, c_fault>>
    /\ UNCHANGED <<c_choice, beside_client>>
    /\ ClientWire(TRUE, <<>>)

ClientNext ==
    \/ Connect
    \/ ClientRecvNone
    \/ DealRecv
    \/ ChooseHit
    \/ ChooseStand
    \/ ChooseOther
    \/ Interrupt
    \/ HitRecv
    \/ StandRecv

ClientSpec == ClientInit /\ [][ClientNext]_vars

\* how many of the final frames delivered carried tag
Delivered(tag) == Cardinality({i \in 1..Len(rcv_final) : rcv_final[i] = tag})

\* --------------------------------------------------------------------- C20
\* C20: wins + losses + ties is the number of rounds whose final CardMessage
\* the client has read, one per round finished; each counter is the number
\* of final frames delivered with its result; each step adds at most one to
\* one counter; a session that returns without a fault has counted exactly
\* the rounds requested.
C20_TallyMatchesResults ==
    /\ [](/\ wins + losses + ties = Len(rcv_final)
          /\ wins = Delivered(RESULT_WIN)
          /\ losses = Delivered(RESULT_LOSS)
          /\ ties = Delivered(RESULT_TIE))
    /\ [](c_pc \in {"deal", "input", "hit", "stand"} =>
            Len(rcv_final) = c_round_idx - 1)
    /\ []((c_pc = "returned" /\ ~c_fault) =>
            /\ wins + losses + ties = c_rounds
            /\ c_round_idx = c_rounds)
    /\ [][/\ wins' - wins \in {0, 1}
          /\ losses' - losses \in {0, 1}
          /\ ties' - ties \in {0, 1}
          /\ (wins' + losses' + ties') - (wins + losses + ties) \in {0, 1}]_vars

\* a session of two rounds ended without a fault on a tie and a win
C20_Witness ==
    /\ c_pc = "returned" /\ ~c_fault
    /\ c_rounds = 2
    /\ rcv_final = <<RESULT_TIE, RESULT_WIN>>
    /\ ties = 1 /\ wins = 1 /\ losses = 0

\* ----------------------------------------------------------------------
\* The deck of one round (server.py: build_deck, play_one_round)
\* ----------------------------------------------------------------------
\* the cards of both hands, in the order of the lists
Hands == player \o dealer
Dealt == {Hands[i] : i \in 1..Len(Hands)}

\* play_one_round's frame exists: its locals deck, player and dealer are bound
InRound == pc \in {"player_turn", "dealer_draw", "return"}

\* --------------------------------------------------------------------- C21
\* C21: within a round the cards dealt (the four of the deal, every hit
\* card, every dealer draw) are pairwise distinct (rank, suit) pairs with
\* rank in 1..13 and suit in 0..3; each came out of the deck, which holds
\* exactly the pairs not dealt, so deck and hands together are always the
\* 52 pairs; every card sent is a card dealt; and every round starts from
\* a deck of 52 with its first four cards dealt, whatever the round before
\* left behind.
C21_FreshDeckWithoutReplacement ==
    /\ [](InRound =>
            /\ Cardinality(Dealt) = Len(Hands)
            /\ Dealt \subseteq (1..13) \X (0..3)
            /\ deck \cap Dealt = {}
            /\ deck \cup Dealt = (1..13) \X (0..3)
            /\ Cardinality(deck) = 52 - Len(Hands)
            /\ SentCards \subseteq Dealt)
    /\ [][(InRound /\ Len(Hands') > Len(Hands)) =>
            \E card \in deck :
              /\ deck' = deck \ {card}
              /\ Hands' \in {Append(player, card) \o dealer,
                              player \o Append(dealer, card)}]_vars
    /\ [][round_idx' # round_idx =>
            /\ Len(player') = 2 /\ Len(dealer') = 2
            /\ Cardinality({player'[1], player'[2], dealer'[1], dealer'[2]}) = 4
            /\ Cardinality(deck') = 48
            /\ deck' = ((1..13) \X (0..3))
                          \ {player'[1], player'[2], dealer'[1], dealer'[2]}]_vars

\* the second round of a session was played to its end with six cards
\* dealt, three to each hand
C21_Witness ==
    /\ RoundCompleted /\ stood
    /\ round_idx = 2
    /\ Len(player) = 3 /\ Len(dealer) = 3
    /\ Cardinality(deck) = 46

\* ----------------------------------------------------------------------
\* The handler under every family of shuffles: any order of the first
\* DeckSize cards of TopCards, TopCards as listed, and the whole deck popped
\* lowest card first or highest card first
\* ----------------------------------------------------------------------
ShuffleInit ==
    /\ pc = "request"
    /\ conn = "open"
    /\ parsed = None
    /\ round_idx = 0
    /\ ok = FALSE
    /\ deck = {}
    /\ player = <<>>
    /\ dealer = <<>>
    /\ p_sum = 0
    /\ dealer_sum = 0
    /\ decision = Unbound
    /\ sent = <<>>
    /\ stood = FALSE
    /\ faulted = FALSE
    /\ shuffles \in {"top", "listed", "ascending", "descending"}
    /\ parked = <<>>
    /\ s2c = NoWire /\ c2s = NoWire
    /\ idle = 0
    /\ FnOff
    /\ ListenerOff
    /\ ClientOff

ShuffleSpec == ShuffleInit /\ [][Next]_vars

\* --------------------------------------------------------------------- C24
\* C24: wherever play_one_round may pop a card next (waiting for a decision
\* in the player turn, or in the dealer's draw loop) the deck is not empty.
\* The reason holds as well: every card counts at least 2, the player who
\* may still hit holds at most 21 (22 with the two aces of a deal), the
\* dealer who still draws holds less than 17, so at most 11 + 8 cards are
\* out and at least 33 remain.
C24_DeckNeverExhausted ==
    [](pc \in {"player_turn", "dealer_draw"} =>
         /\ deck # {}
         /\ Poppable(deck) # {}
         /\ Cardinality(deck) = 52 - Len(Hands)
         /\ \A i \in 1..Len(Hands) : card_value(Hands[i][1]) >= 2
         /\ 2 * Len(player) <= hand_sum(player)
         /\ 2 * Len(dealer) <= hand_sum(dealer)
         /\ hand_sum(player) <= 22
         /\ Len(player) > 2 => hand_sum(player) <= 21
         /\ pc = "dealer_draw" => hand_sum(dealer) < 17
         /\ pc = "player_turn" => Len(dealer) = 2
         /\ Len(player) <= 11 /\ Len(dealer) <= 8
         /\ Cardinality(deck) >= 33)

\* the longest round of the lowest-first shuffle: the player stood on seven
\* cards and the dealer drew four more, thirteen cards out of the deck
C24_Witness ==
    /\ shuffles = "ascending"
    /\ RoundCompleted /\ stood
    /\ Len(player) = 7 /\ Len(dealer) = 6
    /\ Cardinality(deck) = 39

\* ----------------------------------------------------------------------
\* Two connections (server.py: main's accept loop, handle_client)
\* ----------------------------------------------------------------------
\* One thread runs handle_client for each accepted connection.  The
\* variables of the handler describe the thread that takes the next step;
\* the other thread's frame is parked.  Everything a handler reads or
\* writes is a local of handle_client, parse_request_binary_or_text or
\* play_one_round, or its own socket: the frame is all of its state.
Frame ==
    <<pc, conn, parsed, round_idx, ok, deck, player, dealer, p_sum,
      dealer_sum, decision, sent, stood, faulted, idle>>

\* variant: the accept loop calls handle_client itself, one connection
\* after the other
SchedulableAfterClose(running) == running = "closed"

\* `threading.Thread(target=handle_client, ...).start()`: the scheduler may
\* run the other thread wherever the running one stands
Schedulable(running) == TRUE

\* the scheduler switches to the thread of the other connection
Switch ==
    /\ parked # <<>>
    /\ Schedulable(pc)
    /\ parked' = Frame
    /\ pc' = parked[1]
    /\ conn' = parked[2]
    /\ parsed' = parked[3]
    /\ round_idx' = parked[4]
    /\ ok' = parked[5]
    /\ deck' = parked[6]
    /\ player' = parked[7]
    /\ dealer' = parked[8]
    /\ p_sum' = parked[9]
    /\ dealer_sum' = parked[10]
    /\ decision' = parked[11]
    /\ sent' = parked[12]
    /\ stood' = parked[13]
    /\ faulted' = parked[14]
    /\ idle' = parked[15]
    /\ UNCHANGED <<shuffles, fn_vars, listener_vars, client_vars, wire_vars>>

\* two connections accepted, both handlers at their first statement
PairInit ==
    /\ pc = "request"
    /\ conn = "open"
    /\ parsed = None
    /\ round_idx = 0
    /\ ok = FALSE
    /\ deck = {}
    /\ player = <<>>
    /\ dealer = <<>>
    /\ p_sum = 0
    /\ dealer_sum = 0
    /\ decision = Unbound
    /\ sent = <<>>
    /\ stood = FALSE
    /\ faulted = FALSE
    /\ shuffles \in {"listed", "descending"}
    /\ idle = 0
    /\ parked = Frame
    /\ s2c = NoWire /\ c2s = NoWire
    /\ FnOff
    /\ ListenerOff
    /\ ClientOff

PairNext == Next \/ Switch

PairSpec == PairInit /\ [][PairNext]_vars

\* the cards of the hands of a frame, and whether the frame is in a round
FrameDealt(f) == {(f[7] \o f[8])[i] : i \in 1..Len(f[7] \o f[8])}
FrameInRound(f) == f[1] \in {"player_turn", "dealer_draw", "return"}

\* --------------------------------------------------------------------- C22
\* C22: with two connections handled at once, every step is either a step
\* of the running handler, which leaves the frame of the other connection
\* (its position, socket, parsed request, round counter, deck, hands, sums,
\* frames sent, outcome) exactly as it was, or a switch of threads, which
\* changes neither frame; the other thread can be scheduled wherever the
\* running handler stands, blocked, faulted or closed, so no connection
\* waits for another; and each connection in a round has a whole deck of
\* its own: its deck and its hands together are the 52 cards.
C22_ConnectionIsolation ==
    /\ [][\/ parked' = parked
          \/ parked' = Frame /\ Frame' = parked]_vars
    /\ [](ENABLED Switch)
    /\ [](\A f \in {Frame, parked} :
            FrameInRound(f) =>
              /\ f[6] \cap FrameDealt(f) = {}
              /\ f[6] \cup FrameDealt(f) = (1..13) \X (0..3)
              /\ Cardinality(f[6]) = 52 - Len(f[7]) - Len(f[8]))

\* one connection was closed on a malformed handshake while the other is
\* in its second round, the player having stood and a third dealer card
\* drawn
C22_Witness ==
    /\ parked # <<>>
    /\ parked[1] = "closed" /\ parked[2] = "closed" /\ parked[3] = None
    /\ pc = "dealer_draw" /\ round_idx = 2
    /\ Len(player) = 2 /\ Len(dealer) = 3

\* ----------------------------------------------------------------------
\* The client and the dealer on one reliable connection
\* (client.py: play_session; server.py: handle_client, play_one_round)
\* ----------------------------------------------------------------------
\* play_session before tcp.connect and handle_client at its first
\* statement, nothing on the connection yet
LockInit ==
    /\ pc = "request"
    /\ conn = "open"
    /\ parsed = None
    /\ round_idx = 0
    /\ ok = FALSE
    /\ deck = {}
    /\ player = <<>>
    /\ dealer = <<>>
    /\ p_sum = 0
    /\ dealer_sum = 0
    /\ decision = Unbound
    /\ sent = <<>>
    /\ stood = FALSE
    /\ faulted = FALSE
    /\ shuffles \in {"listed", "ascending", "descending"}
    /\ parked = <<>>
    /\ s2c = <<>> /\ c2s = <<>>
    /\ idle = 0
    /\ FnOff
    /\ ListenerOff
    /\ c_pc = "connect"
    /\ c_choice = ""
    /\ c_rounds \in 1..MaxRounds
    /\ c_round_idx = 0
    /\ c_i = 0
    /\ player_sum = 0
    /\ wins = 0
    /\ losses = 0
    /\ ties = 0
    /\ rcv_final = <<>>
    /\ c_fault = FALSE

\* the steps of both ends but those of a fault (a failed recv, an
\* interrupt) and of a payload the client never sends
LockNext ==
    \/ ParseRequest
    \/ StartRound
    \/ RoundReturn
    \/ SessionEnd
    \/ RecvHit
    \/ RecvStand
    \/ DealerDraw
    \/ Connect
    \/ DealRecv
    \/ ChooseHit
    \/ ChooseStand
    \/ ChooseOther
    \/ HitRecv
    \/ StandRecv

LockSpec == LockInit /\ [][LockNext]_vars

\* blocked in recv_exact with nothing to read
ClientWaits == c_pc \in {"deal", "hit", "stand"} /\ s2c = <<>>
DealerWaits == pc \in {"request", "player_turn"} /\ c2s = <<>>

\* the frames on their way to the client that the dealer sent in round k,
\* and the result tags the client's decoder reads in them
OfRound(k) == SelectSeq(s2c, LAMBDA m : m[1] = k)
TagsOfRound(k) ==
    [i \in 1..Len(OfRound(k)) |->
       Payload_result(unpack_payload_card(OfRound(k)[i][2]))]

\* play_one_round for round k has returned
DealerPast(k) ==
    round_idx > k \/ (round_idx = k /\ pc \in {"return", "loop", "closed"})

\* --------------------------------------------------------------------- C23
\* C23: on a reliable connection the client and the dealer stay in step.
\* No frame is refused and no recv fails.  Frames wait in the order of
\* their rounds, none of a round the client has left, and the frame the
\* client reads next is of the round it is in.  At the prompt the client
\* has read all the dealer sent (three frames of the deal, one per HIT),
\* the dealer waits for the decision of the same round and both hold the
\* same player sum.  During the deal the frames read and those waiting are
\* the three of the deal.  A HIT is answered by exactly one frame; after
\* STAND every frame but the last of the round is NOT_OVER and the last is
\* final.  The round ends for the client on a final frame of its round,
\* when the dealer has left that round and no other frame of it waits.
\* At most one message waits for the dealer, the request at the handshake
\* and HIT or STAND in the player turn.  Neither end waits in recv while
\* the other waits too, or is gone; the client returns with every round
\* requested counted and the connection empty.
C23_LockStep ==
    /\ [](~faulted /\ ~c_fault /\ c_pc # "failed")
    /\ [](\A i \in 1..Len(s2c) :
            /\ s2c[i][1] >= c_round_idx
            /\ s2c[i][1] <= round_idx
            /\ i > 1 => s2c[i - 1][1] <= s2c[i][1])
    /\ []((c_pc \in {"deal", "hit", "stand"} /\ s2c # <<>>) =>
            Head(s2c)[1] = c_round_idx)
    /\ [](c_pc = "input" =>
            /\ s2c = <<>> /\ c2s = <<>>
            /\ pc = "player_turn" /\ round_idx = c_round_idx
            /\ Len(sent) = Len(player) + 1
            /\ player_sum = p_sum)
    /\ [](c_pc = "deal" =>
            IF round_idx < c_round_idx THEN s2c = <<>> /\ c_i = 0
            ELSE /\ round_idx = c_round_idx /\ pc = "player_turn"
                 /\ c_i + Len(s2c) = 3
                 /\ \A i \in 1..Len(s2c) :
                      TagsOfRound(c_round_idx)[i] = RESULT_NOT_OVER)
    /\ []((c_pc = "hit" /\ c2s = <<>>) => Len(OfRound(c_round_idx)) = 1)
    /\ []((c_pc = "stand" /\ c2s = <<>>) =>
            /\ \A i \in 1..(Len(OfRound(c_round_idx)) - 1) :
                 TagsOfRound(c_round_idx)[i] = RESULT_NOT_OVER
            /\ DealerPast(c_round_idx) =>
                 /\ OfRound(c_round_idx) # <<>>
                 /\ TagsOfRound(c_round_idx)[Len(OfRound(c_round_idx))]
                      # RESULT_NOT_OVER
            /\ ~DealerPast(c_round_idx) =>
                 /\ pc = "dealer_draw" /\ round_idx = c_round_idx
                 /\ \A i \in 1..Len(OfRound(c_round_idx)) :
                      TagsOfRound(c_round_idx)[i] = RESULT_NOT_OVER)
    /\ [][Len(rcv_final') > Len(rcv_final) =>
            /\ Head(s2c)[1] = c_round_idx
            /\ Payload_result(unpack_payload_card(Head(s2c)[2])) # RESULT_NOT_OVER
            /\ rcv_final' = Append(rcv_final,
                     Payload_result(unpack_payload_card(Head(s2c)[2])))
            /\ DealerPast(c_round_idx)
            /\ \A i \in 1..Len(s2c') : s2c'[i][1] > c_round_idx]_vars
    /\ [](/\ Len(c2s) <= 1
          /\ c2s # <<>> =>
               \/ /\ pc = "request"
                  /\ Head(c2s) = pack_request(c_rounds, CLIENT_TEAM_NAME)
               \/ /\ pc = "player_turn" /\ round_idx = c_round_idx
                  /\ IsRecognized(unpack_payload_decision(Head(c2s))))
    /\ [](~(ClientWaits /\ (DealerWaits \/ pc = "closed")))
    /\ [](~(DealerWaits /\ c_pc = "returned"))
    /\ [](c_pc = "returned" =>
            /\ Len(rcv_final) = c_rounds
            /\ s2c = <<>> /\ c2s = <<>>
            /\ DealerPast(c_rounds))

\* the dealer is ahead: the client, having stood in round 1, has the frames
\* of the dealer's turn still to read, and behind them the deal of round 2
C23_Witness ==
    /\ c_pc = "stand" /\ c_round_idx = 1
    /\ pc = "player_turn" /\ round_idx = 2
    /\ Len(OfRound(1)) >= 2
    /\ Len(OfRound(2)) = 3

====
